---------------------------- MODULE Spec2Model ----------------------------
(***************************************************************************)
(* Model of the two batch tools of schmoji-emoji:                          *)
(*   scripts/rename_files.py  (the Flattener)                              *)
(*   scripts/copy_schmoji.py  (the Selector)                               *)
(*                                                                         *)
(* A file name is a sequence of one-character strings, so that globbing,   *)
(* sorting, suffix extraction, strip() and lower() are computed on the     *)
(* characters as Python computes them.  A directory tree is a record       *)
(*   [root  |-> the root directory exists,                                 *)
(*    dirs  |-> the style directories that exist under it,                 *)
(*    files |-> a set of [style, name, content] records]                   *)
(* and the content of a file is the identity of the source file it was     *)
(* copied from.  Every filesystem call (mkdir, unlink, copy2) is one step, *)
(* so that a run can be cut between any two of them.  I/O errors of the    *)
(* operating system (a failing unlink or copy) are not modelled.           *)
(***************************************************************************)
EXTENDS Integers, Sequences, FiniteSets, TLC

(***************************************************************************)
(* Characters and strings                                                  *)
(***************************************************************************)
Digits   == <<"0","1","2","3","4","5","6","7","8","9">>
Capitals == <<"A","B","C","D","E","F","G","H","I","J","K","L","M",
              "N","O","P","Q","R","S","T","U","V","W","X","Y","Z">>
Letters  == <<"a","b","c","d","e","f","g","h","i","j","k","l","m",
              "n","o","p","q","r","s","t","u","v","w","x","y","z">>

Range(s) == {s[i] : i \in DOMAIN s}

Alphabet == Range(Digits) \cup Range(Capitals) \cup Range(Letters)
              \cup {" ", ".", "_", "-"}

IndexOf(s, c) == CHOOSE i \in DOMAIN s : s[i] = c

\* The code point of a character: what Python's string comparison compares.
Ord == [c \in Alphabet |->
          IF c \in Range(Digits) THEN 47 + IndexOf(Digits, c)
          ELSE IF c \in Range(Capitals) THEN 64 + IndexOf(Capitals, c)
          ELSE IF c \in Range(Letters) THEN 96 + IndexOf(Letters, c)
          ELSE CASE c = " " -> 32
                 [] c = "-" -> 45
                 [] c = "." -> 46
                 [] c = "_" -> 95]

\* str.lower() on one character.
LowerChar == [c \in Alphabet |->
                IF c \in Range(Capitals) THEN Letters[IndexOf(Capitals, c)] ELSE c]

\* str.lower()
Lower(s) == [i \in DOMAIN s |-> LowerChar[s[i]]]

\* str.strip(): leading and trailing blanks removed.
Strip(s) ==
    LET keep == {i \in DOMAIN s : s[i] # " "}
    IN  IF keep = {} THEN <<>>
        ELSE LET lo == CHOOSE i \in keep : \A j \in keep : i <= j
                 hi == CHOOSE i \in keep : \A j \in keep : j <= i
             IN  SubSeq(s, lo, hi)

\* a < b for Python strings: code-point lexicographic order.
NameLess(a, b) ==
    \E i \in 1..(Len(a) + 1) :
        /\ i <= Len(b)
        /\ \A j \in 1..(i - 1) : a[j] = b[j]
        /\ \/ i = Len(a) + 1
           \/ Ord[a[i]] < Ord[b[i]]

\* sorted(...) of a set of names.
RECURSIVE SortNames(_)
SortNames(S) ==
    IF S = {} THEN <<>>
    ELSE LET m == CHOOSE x \in S : \A y \in S \ {x} : NameLess(x, y)
         IN  <<m>> \o SortNames(S \ {m})

StartsWith(name, prefix) ==
    /\ Len(prefix) <= Len(name)
    /\ SubSeq(name, 1, Len(prefix)) = prefix

\* PurePath.suffix: the last "." and what follows it, unless that dot is the
\* first or the last character of the name.
Suffix(name) ==
    LET dots == {i \in DOMAIN name : name[i] = "."}
    IN  IF dots = {} THEN <<>>
        ELSE LET i == CHOOSE d \in dots : \A e \in dots : e <= d
             IN  IF 1 < i /\ i < Len(name) THEN SubSeq(name, i, Len(name)) ELSE <<>>

\* PurePath.stem: the name without its suffix.
Stem(name) == SubSeq(name, 1, Len(name) - Len(Suffix(name)))

\* fnmatch of one path component against a pattern whose only wildcard is "*".
RECURSIVE GlobMatch(_, _)
GlobMatch(pat, name) ==
    IF pat = <<>> THEN name = <<>>
    ELSE IF Head(pat) = "*"
         THEN \/ GlobMatch(Tail(pat), name)
              \/ name # <<>> /\ GlobMatch(pat, Tail(name))
         ELSE /\ name # <<>>
              /\ Head(name) = Head(pat)
              /\ GlobMatch(Tail(pat), Tail(name))

(***************************************************************************)
(* Directory trees                                                         *)
(***************************************************************************)
File(style, name, content) == [style |-> style, name |-> name, content |-> content]

\* The identity of a source file: where it lies in its source tree.
Origin(dir, variant, style, name) ==
    [dir |-> dir, variant |-> variant, style |-> style, name |-> name]

EmptyTree == [root |-> FALSE, dirs |-> {}, files |-> {}]

\* The names in one style directory of a tree.
Names(tree, style) == {f.name : f \in {g \in tree.files : g.style = style}}

ContentOf(tree, style, name) ==
    (CHOOSE f \in tree.files : f.style = style /\ f.name = name).content

\* Path.mkdir(parents=True, exist_ok=True) of a style directory.
Mkdir(tree, style) == [tree EXCEPT !.root = TRUE, !.dirs = @ \cup {style}]

\* Path.unlink()
Unlink(tree, style, name) ==
    [tree EXCEPT !.files = {f \in @ : ~(f.style = style /\ f.name = name)}]

\* shutil.copy2(src, target): creates the target or overwrites it.
CopyFile(tree, style, name, content) ==
    [tree EXCEPT !.files = {f \in @ : ~(f.style = style /\ f.name = name)}
                             \cup {File(style, name, content)}]

\* sorted(dir.glob(pattern))
Glob(tree, style, pat) == SortNames({n \in Names(tree, style) : GlobMatch(pat, n)})


(***************************************************************************)
(* Inputs of the runs                                                      *)
(***************************************************************************)
\* Bounds of the model.
MaxCodes    == 2    \* length of the --codes list
MaxSrcFiles == 2    \* files in the flattened Color directory

DEFAULT_STYLES == <<"Color", "3D">>

NoName == <<>>

N_26f8_svg      == <<"2","6","f","8",".","s","v","g">>
N_26f8_png      == <<"2","6","f","8",".","p","n","g">>
N_26f8_fe0f_png == <<"2","6","f","8"," ","f","e","0","f",".","p","n","g">>
N_26f8_2_png    == <<"2","6","f","8","_","2",".","p","n","g">>
N_26f8          == <<"2","6","f","8">>
N_26_png        == <<"2","6",".","p","n","g">>
N_1f954_png     == <<"1","f","9","5","4",".","p","n","g">>

Ext_svg == <<".","s","v","g">>
Ext_png == <<".","p","n","g">>
Exts    == {Ext_svg, Ext_png}

\* File names the flattened Color directory is drawn from.
SrcNames == {N_26f8_svg, N_26f8_fe0f_png, N_26f8_2_png, N_26f8, N_26_png}

\* --codes values as typed (upper-case hex, as in _SWIFT_CODES).
RawCodes == {<<"2","6","F","8">>, <<"2","6">>, <<"f","f","f","f","f","f">>}

RawCodeLists == UNION {[1..n -> RawCodes] : n \in 1..MaxCodes}

\* --styles values; <<>> is an absent or empty argument.
StyleArgs == {<<>>, <<"Color">>}

\* The flattened ("unicode") tree: Color holds the names given, 3D is either
\* missing or holds one file.
FlatContent(style, name) == Origin(<<>>, "unicode", style, name)

SrcTree(names, with3D) ==
    [root  |-> TRUE,
     dirs  |-> {"Color"} \cup (IF with3D THEN {"3D"} ELSE {}),
     files |-> {File("Color", n, FlatContent("Color", n)) : n \in names}
                 \cup (IF with3D
                       THEN {File("3D", N_26f8_png, FlatContent("3D", N_26f8_png))}
                       ELSE {})]

SrcTrees == {SrcTree(names, w) :
               names \in {S \in SUBSET SrcNames : Cardinality(S) <= MaxSrcFiles},
               w \in BOOLEAN}

\* Content of a file that was in the destination before the first run.
Stale(style, name) == Origin(<<>>, "stale", style, name)

\* A destination left by earlier runs: two files for 26f8 and one for 1f954.
StaleTree ==
    [root  |-> TRUE,
     dirs  |-> {"Color"},
     files |-> {File("Color", n, Stale("Color", n)) :
                  n \in {N_26f8_png, N_26f8_fe0f_png, N_1f954_png}}]

DstTrees == {EmptyTree, StaleTree}

(***************************************************************************)
(* copy_schmoji.py: pure parts                                             *)
(***************************************************************************)
\* parse_styles: the default list for an absent or empty argument.
parse_styles(arg) == IF arg = <<>> THEN DEFAULT_STYLES ELSE arg

\* normalize_codes: strip and lower each code, drop empty ones, keep the first
\* occurrence of each.
RECURSIVE normalize_from(_, _)
normalize_from(raw, out) ==
    IF raw = <<>> THEN out
    ELSE LET cc == Lower(Strip(Head(raw)))
         IN  IF cc = <<>> \/ cc \in Range(out)
             THEN normalize_from(Tail(raw), out)
             ELSE normalize_from(Tail(raw), Append(out, cc))

normalize_codes(raw) == normalize_from(raw, <<>>)

\* sorted(src_style_dir.glob(f"{code}*.*"))
Candidates(tree, style, code) == Glob(tree, style, code \o <<"*", ".", "*">>)

ExactPattern(code) == code \o <<".", "*">>
Fe0fPattern(code)  == code \o <<" ", "f", "e", "0", "f", ".", "*">>

\* A faulty variant of Preferred: the FE0F variant is tried before the exact match.
PreferredFe0fFirst(tree, style, code) ==
    LET exact == Glob(tree, style, ExactPattern(code))
        fe0f  == Glob(tree, style, Fe0fPattern(code))
    IN  IF fe0f # <<>> THEN fe0f[1]
        ELSE IF exact # <<>> THEN exact[1]
        ELSE Candidates(tree, style, code)[1]

\* The preferred source among non-empty candidates: exact match, else the
\* FE0F variant, else the first candidate.
Preferred(tree, style, code) ==
    LET exact == Glob(tree, style, ExactPattern(code))
        fe0f  == Glob(tree, style, Fe0fPattern(code))
    IN  IF exact # <<>> THEN exact[1]
        ELSE IF fe0f # <<>> THEN fe0f[1]
        ELSE Candidates(tree, style, code)[1]

\* dst = dst_style_dir / f"{code}{preferred.suffix}"
CopyTarget(code, preferred) == code \o Suffix(preferred)

\* A faulty variant of OldFiles: only the first old destination file is removed.
OldFilesFirstOnly(tree, style, code) ==
    LET found == Glob(tree, style, code \o <<"*", ".", "*">>)
    IN  IF found = <<>> THEN <<>> ELSE <<found[1]>>

\* The destination files removed before the copy:
\* sorted(dst_style_dir.glob(f"{code}*.*"))
OldFiles(tree, style, code) == Glob(tree, style, code \o <<"*", ".", "*">>)

\* A faulty variant of SelEnsureDir: the directory is made in a dry run too.
SelEnsureDirAlways(tree, style, dry) == Mkdir(tree, style)

\* dst_style_dir.mkdir(...) unless dry_run.
SelEnsureDir(tree, style, dry) == IF dry THEN tree ELSE Mkdir(tree, style)


(***************************************************************************)
(* rename_files.py: inputs and pure parts                                  *)
(***************************************************************************)
MaxEmoji == 2    \* children of the assets root

STYLE_DIRS == <<"Color", "Flat", "High Contrast", "3D">>

DS_Store == <<".","D","S","_","S","t","o","r","e">>
IGNORE_FILES == {DS_Store}

\* metadata.json of an emoji directory:
\*   "absent"   there is no metadata.json
\*   "invalid"  json.load or meta.get raises (not JSON, or not an object)
\*   "nokey"    an object without "unicode"
\*   "null"     "unicode": null
\*   "string"   "unicode": val
Meta(kind, val) == [kind |-> kind, val |-> val]

Entry(variant, style, name, isFile) ==
    [variant |-> variant, style |-> style, name |-> name, isFile |-> isFile]

\* A child of the assets root.  variant is "root" for <emoji>/<style>/..., else
\* the name of the skin-tone folder: <emoji>/<variant>/<style>/...
Child(name, isDir, meta, hasDefault, entries) ==
    [name |-> name, isDir |-> isDir, meta |-> meta, hasDefault |-> hasDefault,
     entries |-> entries]

F_a_svg  == <<"a",".","s","v","g">>
F_b_svg  == <<"b",".","s","v","g">>
F_a_png  == <<"a",".","p","n","g">>
F_d_svg  == <<"d",".","s","v","g">>
F_d_png  == <<"d",".","p","n","g">>
F_r_png  == <<"r",".","p","n","g">>
F_notes  == <<"n","o","t","e","s">>
F_sub    == <<"s","u","b",".","d">>

Potato ==
    Child(<<"P","o","t","a","t","o">>, TRUE,
          Meta("string", <<"1","F","9","5","4">>), FALSE,
          {Entry("root", "Color", F_a_svg, TRUE),
           Entry("root", "Color", F_a_png, TRUE),
           Entry("root", "3D", F_a_png, TRUE),
           Entry("root", "3D", F_notes, TRUE)})

Skier ==
    Child(<<"S","k","i","e","r">>, TRUE,
          Meta("string", <<" ","2","6","f","8"," ">>), TRUE,
          {Entry("Default", "Color", F_a_svg, TRUE),
           Entry("Default", "Color", F_b_svg, TRUE),
           Entry("Default", "Color", DS_Store, TRUE),
           Entry("Default", "Color", F_sub, FALSE),
           Entry("Dark", "Color", F_d_svg, TRUE),
           Entry("Dark", "Color", F_d_png, TRUE),
           Entry("Dark", "Flat", F_d_svg, TRUE),
           Entry("root", "Color", F_r_png, TRUE)})

Spud ==
    Child(<<"S","p","u","d">>, TRUE,
          Meta("string", <<"1","f","9","5","4">>), FALSE,
          {Entry("root", "Color", F_r_png, TRUE),
           Entry("root", "Flat", F_a_svg, TRUE)})

Ghost ==
    Child(<<"G","h","o","s","t">>, TRUE, Meta("absent", <<>>), FALSE,
          {Entry("root", "Color", F_a_svg, TRUE)})

Broken ==
    Child(<<"B","r","o","k","e","n">>, TRUE, Meta("invalid", <<>>), FALSE,
          {Entry("root", "Color", F_a_svg, TRUE)})

Blank ==
    Child(<<"B","l","a","n","k">>, TRUE, Meta("string", <<" "," ">>), FALSE,
          {Entry("root", "Color", F_a_svg, TRUE)})

NoKey ==
    Child(<<"N","o","K","e","y">>, TRUE, Meta("nokey", <<>>), FALSE,
          {Entry("root", "Color", F_a_svg, TRUE)})

Null ==
    Child(<<"N","u","l","l">>, TRUE, Meta("null", <<>>), FALSE,
          {Entry("root", "Color", F_a_svg, TRUE)})

Readme ==
    Child(<<"R","E","A","D","M","E">>, FALSE, Meta("absent", <<>>), FALSE, {})

Children == {Potato, Skier, Spud, Ghost, Broken, Blank, NoKey, Null, Readme}

\* sorted(assets_root.iterdir()) of a set of children.
SortedChildren(S) ==
    LET order == SortNames({c.name : c \in S})
    IN  [i \in DOMAIN order |-> CHOOSE c \in S : c.name = order[i]]

AssetLists == {SortedChildren(S) : S \in {T \in SUBSET Children : Cardinality(T) <= MaxEmoji}}

\* str(meta.get("unicode", ""))
PyStr(meta) ==
    CASE meta.kind = "nokey"  -> <<>>
      [] meta.kind = "null"   -> <<"N","o","n","e">>
      [] meta.kind = "string" -> meta.val

\* unicode_code = str(meta.get("unicode", "")).strip().lower()
unicode_code(meta) == Lower(Strip(PyStr(meta)))

\* Whether process_emoji_dir gets past the metadata: metadata.json exists, is
\* read without an exception and yields a non-empty code.
HasCode(child) ==
    /\ child.meta.kind \notin {"absent", "invalid"}
    /\ unicode_code(child.meta) # <<>>

\* A faulty variant of StyleSource: the Default folder is not preferred.
StyleSourceRoot(child) == "root"

\* default_variant / style if default_variant.is_dir() else emoji_dir / style
StyleSource(child) == IF child.hasDefault THEN "Default" ELSE "root"

\* The entries of src_dir, the style directory process_emoji_dir hands to
\* copy_in_style_dir.
StyleDir(child, style) ==
    {y \in child.entries : y.variant = StyleSource(child) /\ y.style = style}

\* copy_in_style_dir's list: the sorted regular files of the style directory
\* that are not ignored and not hidden.
VisibleFiles(child, style) ==
    SortNames({x.name : x \in {y \in StyleDir(child, style) :
                 /\ y.isFile
                 /\ y.name \notin IGNORE_FILES
                 /\ Head(y.name) # "."}})

\* The identity of the file src of copy_in_style_dir's loop.
SourceOf(child, style, name) ==
    LET e == CHOOSE y \in StyleDir(child, style) : y.name = name
    IN  Origin(child.name, e.variant, e.style, e.name)

\* A faulty variant of FlatTarget: every copy is named <code>.svg.
FlatTargetSvg(code, name) == code \o Ext_svg

\* target = out_dir / f"{unicode_code}{ext}", ext = src.suffix
FlatTarget(code, name) == code \o Suffix(name)

\* out_dir.mkdir(...) unless dry_run.
FlatEnsureDir(tree, style, dry) == IF dry THEN tree ELSE Mkdir(tree, style)

VARIABLES
    tool,          \* "selector" or "flattener"
    dryRun,        \* --dry-run
    rootExists,    \* the positional root path exists
    dst0,          \* the destination tree before the first run
    dst,           \* the destination tree
    pc,            \* position in main / copy_matches / process_emoji_dir
    exitStatus,    \* -1 while running, else the process exit status
    run,           \* 1 or 2: which invocation is running
    scenario,      \* "first", or why there is a second run: "rerun", "changed", "repair"
    interruptedAt, \* where the first run was cut ("none" if it was not)
    dstAfter1,     \* the destination tree at the end of a complete first run
    \* Selector
    unicodeExists, \* the flattened root exists
    src,           \* the flattened tree
    styles,        \* parse_styles(args.styles)
    codes,         \* normalize_codes(...)
    si,            \* index of the style being processed
    ci,            \* index of the code being processed
    any_missing,
    preferred,     \* the chosen source file of the code being processed
    olds,          \* destination files still to unlink for that code
    chosen,        \* this run's choices: a set of [style, code, file]
    change,        \* the extension change made between the runs, if any
    \* Flattener
    singleEmoji,   \* the root is itself an emoji folder (it holds metadata.json)
    assets,        \* the children of the assets root, sorted (or the one emoji folder)
    ei,            \* index of the child being processed
    sti,           \* index into STYLE_DIRS
    code,          \* unicode_code of the child being processed
    pending,       \* files of the current style directory still to copy
    warned         \* a warning was printed

selVars == <<unicodeExists, src, styles, codes, si, ci, any_missing, preferred,
             olds, chosen, change>>
flatVars == <<singleEmoji, assets, ei, sti, code, pending, warned>>
vars == <<tool, dryRun, rootExists, dst0, dst, pc, exitStatus, run, scenario,
          interruptedAt, dstAfter1, selVars, flatVars>>

NoChange == [style |-> "", code |-> <<>>, ext1 |-> <<>>, ext2 |-> <<>>]

InitSelector ==
    /\ tool = "selector"
    /\ dryRun \in BOOLEAN
    /\ \E r \in BOOLEAN, u \in BOOLEAN :
         /\ rootExists = r
         /\ unicodeExists = u
            \* the other inputs are not read when a root is missing
         /\ src \in IF r /\ u THEN SrcTrees ELSE {SrcTree({N_26f8_svg}, FALSE)}
         /\ styles \in IF r /\ u THEN {parse_styles(a) : a \in StyleArgs}
                       ELSE {DEFAULT_STYLES}
         /\ codes \in IF r /\ u THEN {normalize_codes(l) : l \in RawCodeLists}
                      ELSE {normalize_codes(<<<<"2","6","F","8">>>>)}
    /\ dst0 \in DstTrees
    /\ dst = dst0
    /\ pc = "start"
    /\ exitStatus = -1
    /\ run = 1
    /\ scenario = "first"
    /\ interruptedAt = "none"
    /\ dstAfter1 = EmptyTree
    /\ si = 0 /\ ci = 0
    /\ any_missing = FALSE
    /\ preferred = NoName
    /\ olds = <<>>
    /\ chosen = {}
    /\ change = NoChange
    /\ singleEmoji = FALSE
    /\ assets = <<>>
    /\ ei = 0 /\ sti = 0
    /\ code = <<>>
    /\ pending = <<>>
    /\ warned = FALSE

InitFlattener ==
    /\ tool = "flattener"
    /\ dryRun \in BOOLEAN
    /\ rootExists \in BOOLEAN
    /\ singleEmoji \in IF rootExists THEN BOOLEAN ELSE {FALSE}
    /\ assets \in IF ~rootExists THEN {<<>>}
                  ELSE IF singleEmoji
                  THEN {<<c>> : c \in {d \in Children : d.meta.kind # "absent"}}
                  ELSE AssetLists
    /\ dst0 \in DstTrees
    /\ dst = dst0
    /\ pc = "start"
    /\ exitStatus = -1
    /\ run = 1
    /\ scenario = "first"
    /\ interruptedAt = "none"
    /\ dstAfter1 = EmptyTree
    /\ ei = 0 /\ sti = 0
    /\ code = <<>>
    /\ pending = <<>>
    /\ warned = FALSE
    /\ unicodeExists = FALSE
    /\ src = EmptyTree
    /\ styles = <<>>
    /\ codes = <<>>
    /\ si = 0 /\ ci = 0
    /\ any_missing = FALSE
    /\ preferred = NoName
    /\ olds = <<>>
    /\ chosen = {}
    /\ change = NoChange

frame == <<tool, dryRun, rootExists, dst0, unicodeExists, styles, codes,
           singleEmoji, assets>>
selLocals  == <<si, ci, any_missing, preferred, olds, chosen>>
flatLocals == <<ei, sti, code, pending, warned>>

(***************************************************************************)
(* copy_schmoji.py: main and copy_matches, one filesystem call per step    *)
(***************************************************************************)
\* main: both roots are checked before copy_matches is called.
SelMain ==
    /\ tool = "selector" /\ pc = "start"
    /\ IF ~rootExists \/ ~unicodeExists
       THEN /\ pc' = "done"
            /\ exitStatus' = 1
            /\ UNCHANGED <<si, any_missing>>
       ELSE /\ pc' = "style"
            /\ si' = 1
            /\ any_missing' = FALSE
            /\ UNCHANGED exitStatus
    /\ UNCHANGED <<frame, dst, run, scenario, interruptedAt, dstAfter1, src, ci,
                   preferred, olds, chosen, change, flatLocals>>

\* for style in styles: a missing source folder is skipped with a warning,
\* else the destination folder is made; after the last style the run ends.
SelStyle ==
    /\ tool = "selector" /\ pc = "style"
    /\ IF si > Len(styles)
       THEN /\ pc' = "done"
            /\ exitStatus' = 0
            /\ UNCHANGED <<dst, si, ci, any_missing>>
       ELSE IF styles[si] \notin src.dirs
       THEN /\ any_missing' = TRUE
            /\ si' = si + 1
            /\ UNCHANGED <<dst, pc, ci, exitStatus>>
       ELSE /\ dst' = SelEnsureDir(dst, styles[si], dryRun)
            /\ ci' = 1
            /\ pc' = "code"
            /\ UNCHANGED <<si, any_missing, exitStatus>>
    /\ UNCHANGED <<frame, run, scenario, interruptedAt, dstAfter1, src,
                   preferred, olds, chosen, change, flatLocals>>

\* for code in codes: glob the candidates, pick the preferred one; a dry run
\* only prints, a real run lists the old destination files to remove.
SelCode ==
    /\ tool = "selector" /\ pc = "code"
    /\ IF ci > Len(codes)
       THEN /\ si' = si + 1
            /\ pc' = "style"
            /\ UNCHANGED <<ci, any_missing, preferred, olds, chosen>>
       ELSE IF Candidates(src, styles[si], codes[ci]) = <<>>
       THEN /\ any_missing' = TRUE
            /\ ci' = ci + 1
            /\ UNCHANGED <<si, pc, preferred, olds, chosen>>
       ELSE LET p == Preferred(src, styles[si], codes[ci])
            IN  /\ chosen' = chosen \cup
                       {[style |-> styles[si], code |-> codes[ci], file |-> p]}
                /\ IF dryRun
                   THEN /\ ci' = ci + 1
                        /\ UNCHANGED <<pc, preferred, olds>>
                   ELSE /\ preferred' = p
                        /\ olds' = OldFiles(dst, styles[si], codes[ci])
                        /\ pc' = "remove"
                        /\ UNCHANGED ci
                /\ UNCHANGED <<si, any_missing>>
    /\ UNCHANGED <<frame, dst, exitStatus, run, scenario, interruptedAt,
                   dstAfter1, src, change, flatLocals>>

\* old.unlink() for the next old destination file.
SelUnlink ==
    /\ tool = "selector" /\ pc = "remove" /\ olds # <<>>
    /\ dst' = Unlink(dst, styles[si], Head(olds))
    /\ olds' = Tail(olds)
    /\ UNCHANGED <<frame, pc, exitStatus, run, scenario, interruptedAt, dstAfter1,
                   src, si, ci, any_missing, preferred, chosen, change, flatLocals>>

\* shutil.copy2(preferred, dst)
SelCopy ==
    /\ tool = "selector" /\ pc = "remove" /\ olds = <<>>
    /\ dst' = CopyFile(dst, styles[si], CopyTarget(codes[ci], preferred),
                       ContentOf(src, styles[si], preferred))
    /\ preferred' = NoName
    /\ ci' = ci + 1
    /\ pc' = "code"
    /\ UNCHANGED <<frame, exitStatus, run, scenario, interruptedAt, dstAfter1,
                   src, si, any_missing, olds, chosen, change, flatLocals>>

(***************************************************************************)
(* rename_files.py: main, process_emoji_dir and copy_in_style_dir          *)
(***************************************************************************)
\* main: a missing root prints an error and returns.
FlatMain ==
    /\ tool = "flattener" /\ pc = "start"
    /\ IF ~rootExists
       THEN /\ pc' = "done"
            /\ exitStatus' = 0
            /\ UNCHANGED ei
       ELSE IF dryRun
       THEN /\ pc' = "walk"
            /\ ei' = 1
            /\ UNCHANGED exitStatus
       ELSE /\ pc' = "mkroot"
            /\ UNCHANGED <<ei, exitStatus>>
    /\ UNCHANGED <<frame, dst, run, scenario, interruptedAt, dstAfter1, src,
                   change, selLocals, sti, code, pending, warned>>

\* out_root.mkdir(parents=True, exist_ok=True)
FlatMkRoot ==
    /\ tool = "flattener" /\ pc = "mkroot"
    /\ dst' = [dst EXCEPT !.root = TRUE]
    /\ pc' = "mkstyle"
    /\ sti' = 1
    /\ UNCHANGED <<frame, exitStatus, run, scenario, interruptedAt, dstAfter1,
                   src, change, selLocals, ei, code, pending, warned>>

\* for _style in STYLE_DIRS: (out_root / _style).mkdir(...)
FlatMkStyle ==
    /\ tool = "flattener" /\ pc = "mkstyle"
    /\ IF sti <= Len(STYLE_DIRS)
       THEN /\ dst' = Mkdir(dst, STYLE_DIRS[sti])
            /\ sti' = sti + 1
            /\ UNCHANGED <<pc, ei>>
       ELSE /\ pc' = "walk"
            /\ ei' = 1
            /\ UNCHANGED <<dst, sti>>
    /\ UNCHANGED <<frame, exitStatus, run, scenario, interruptedAt, dstAfter1,
                   src, change, selLocals, code, pending, warned>>

\* The next child of the assets root (or the one emoji folder) and the head
\* of process_emoji_dir: the child is left when it is no directory, has no
\* metadata.json, cannot be read, or yields an empty code.
FlatWalk ==
    /\ tool = "flattener" /\ pc = "walk"
    /\ IF ei > Len(assets)
       THEN /\ pc' = "done"
            /\ exitStatus' = 0
            /\ UNCHANGED <<ei, sti, code, warned>>
       ELSE IF (~singleEmoji /\ ~assets[ei].isDir) \/ assets[ei].meta.kind = "absent"
       THEN /\ ei' = ei + 1
            /\ UNCHANGED <<pc, exitStatus, sti, code, warned>>
       ELSE IF ~HasCode(assets[ei])
       THEN /\ warned' = TRUE
            /\ ei' = ei + 1
            /\ UNCHANGED <<pc, exitStatus, sti, code>>
       ELSE /\ code' = unicode_code(assets[ei].meta)
            /\ sti' = 1
            /\ pc' = "style"
            /\ UNCHANGED <<ei, exitStatus, warned>>
    /\ UNCHANGED <<frame, dst, run, scenario, interruptedAt, dstAfter1, src,
                   change, selLocals, pending>>

\* for style in STYLE_DIRS: the head of copy_in_style_dir: nothing to do for
\* a missing or empty style directory, else the output directory is made.
FlatStyle ==
    /\ tool = "flattener" /\ pc = "style"
    /\ IF sti > Len(STYLE_DIRS)
       THEN /\ ei' = ei + 1
            /\ pc' = "walk"
            /\ UNCHANGED <<dst, sti, pending>>
       ELSE IF VisibleFiles(assets[ei], STYLE_DIRS[sti]) = <<>>
       THEN /\ sti' = sti + 1
            /\ UNCHANGED <<dst, pc, ei, pending>>
       ELSE /\ dst' = FlatEnsureDir(dst, STYLE_DIRS[sti], dryRun)
            /\ pending' = VisibleFiles(assets[ei], STYLE_DIRS[sti])
            /\ pc' = "copy"
            /\ UNCHANGED <<ei, sti>>
    /\ UNCHANGED <<frame, exitStatus, run, scenario, interruptedAt, dstAfter1,
                   src, change, selLocals, code, warned>>

\* for src in files: shutil.copy2(src, target), or only a line in a dry run.
FlatCopy ==
    /\ tool = "flattener" /\ pc = "copy"
    /\ IF pending = <<>>
       THEN /\ sti' = sti + 1
            /\ pc' = "style"
            /\ UNCHANGED <<dst, pending>>
       ELSE /\ dst' = IF dryRun THEN dst
                      ELSE CopyFile(dst, STYLE_DIRS[sti], FlatTarget(code, Head(pending)),
                                    SourceOf(assets[ei], STYLE_DIRS[sti], Head(pending)))
            /\ pending' = Tail(pending)
            /\ UNCHANGED <<pc, sti>>
    /\ UNCHANGED <<frame, exitStatus, run, scenario, interruptedAt, dstAfter1,
                   src, change, selLocals, ei, code, warned>>

(***************************************************************************)
(* A second invocation of the same tool                                    *)
(***************************************************************************)
\* A fresh process: every local starts again.
Restart ==
    /\ pc' = "start"
    /\ exitStatus' = -1
    /\ run' = 2
    /\ si' = 0 /\ ci' = 0
    /\ any_missing' = FALSE
    /\ preferred' = NoName
    /\ olds' = <<>>
    /\ chosen' = {}
    /\ ei' = 0 /\ sti' = 0
    /\ code' = <<>>
    /\ pending' = <<>>
    /\ warned' = FALSE

\* The first (real) run is killed between two steps and the tool is started
\* again with the same arguments.
Interrupt ==
    /\ run = 1 /\ ~dryRun /\ pc # "done"
    /\ interruptedAt' = IF pc = "remove" /\ olds = <<>> THEN "copy" ELSE pc
    /\ scenario' = "repair"
    /\ Restart
    /\ UNCHANGED <<frame, dst, dstAfter1, src, change>>

\* The Selector is run again with the same arguments after a complete run.
Rerun ==
    /\ tool = "selector" /\ run = 1 /\ ~dryRun /\ pc = "done" /\ exitStatus = 0
    /\ scenario' = "rerun"
    /\ dstAfter1' = dst
    /\ Restart
    /\ UNCHANGED <<frame, dst, interruptedAt, src, change>>

\* The source tree with one file renamed to another extension.
Renamed(tree, style, name, ext) ==
    [tree EXCEPT !.files =
        {f \in @ : ~(f.style = style /\ f.name = name)}
          \cup {File(style, Stem(name) \o ext, FlatContent(style, Stem(name) \o ext))}]

\* Between two Selector runs the asset matched for one requested code in one
\* style changes its extension from ext1 to ext2.
ChangeExt ==
    /\ tool = "selector" /\ run = 1 /\ ~dryRun /\ pc = "done" /\ exitStatus = 0
    /\ \E s \in Range(styles) \cap src.dirs, c \in Range(codes), e2 \in Exts :
         /\ Candidates(src, s, c) # <<>>
         /\ LET p    == Preferred(src, s, c)
                e1   == Suffix(p)
                src2 == Renamed(src, s, p, e2)
            IN  /\ e1 # <<>> /\ e1 # e2
                /\ Stem(p) \o e2 \notin Names(src, s)
                /\ Suffix(Preferred(src2, s, c)) = e2
                /\ src' = src2
                /\ change' = [style |-> s, code |-> c, ext1 |-> e1, ext2 |-> e2]
    /\ scenario' = "changed"
    /\ dstAfter1' = dst
    /\ Restart
    /\ UNCHANGED <<frame, dst, interruptedAt>>

(***************************************************************************)
(* A complete, uninterrupted real run as a function of the destination     *)
(* tree it starts from: the same calls in the same order                   *)
(***************************************************************************)
RECURSIVE RemoveAll(_, _, _)
RemoveAll(tree, style, names) ==
    IF names = <<>> THEN tree
    ELSE RemoveAll(Unlink(tree, style, Head(names)), style, Tail(names))

\* copy_matches, the body of "for code in codes".
SelCodeResult(tree, style, c) ==
    IF Candidates(src, style, c) = <<>> THEN tree
    ELSE LET p == Preferred(src, style, c)
         IN  CopyFile(RemoveAll(tree, style, OldFiles(tree, style, c)),
                      style, CopyTarget(c, p), ContentOf(src, style, p))

RECURSIVE SelCodesResult(_, _, _)
SelCodesResult(tree, style, cs) ==
    IF cs = <<>> THEN tree
    ELSE SelCodesResult(SelCodeResult(tree, style, Head(cs)), style, Tail(cs))

\* copy_matches, the body of "for style in styles".
RECURSIVE SelStylesResult(_, _)
SelStylesResult(tree, sts) ==
    IF sts = <<>> THEN tree
    ELSE IF Head(sts) \notin src.dirs THEN SelStylesResult(tree, Tail(sts))
    ELSE SelStylesResult(SelCodesResult(Mkdir(tree, Head(sts)), Head(sts), codes),
                         Tail(sts))

RunSelector(tree) ==
    IF ~rootExists \/ ~unicodeExists THEN tree ELSE SelStylesResult(tree, styles)

\* copy_in_style_dir's loop over the files.
RECURSIVE FlatFilesResult(_, _, _, _)
FlatFilesResult(tree, child, style, files) ==
    IF files = <<>> THEN tree
    ELSE FlatFilesResult(
            CopyFile(tree, style, FlatTarget(unicode_code(child.meta), Head(files)),
                     SourceOf(child, style, Head(files))),
            child, style, Tail(files))

\* process_emoji_dir's loop over STYLE_DIRS.
RECURSIVE FlatStylesResult(_, _, _)
FlatStylesResult(tree, child, sts) ==
    IF sts = <<>> THEN tree
    ELSE IF VisibleFiles(child, Head(sts)) = <<>>
         THEN FlatStylesResult(tree, child, Tail(sts))
         ELSE FlatStylesResult(
                 FlatFilesResult(Mkdir(tree, Head(sts)), child, Head(sts),
                                 VisibleFiles(child, Head(sts))),
                 child, Tail(sts))

\* main's loop over the children.
RECURSIVE FlatChildrenResult(_, _)
FlatChildrenResult(tree, cs) ==
    IF cs = <<>> THEN tree
    ELSE IF (~singleEmoji /\ ~Head(cs).isDir) \/ ~HasCode(Head(cs))
         THEN FlatChildrenResult(tree, Tail(cs))
         ELSE FlatChildrenResult(FlatStylesResult(tree, Head(cs), STYLE_DIRS), Tail(cs))

RECURSIVE MkdirAll(_, _)
MkdirAll(tree, sts) ==
    IF sts = <<>> THEN tree ELSE MkdirAll(Mkdir(tree, Head(sts)), Tail(sts))

RunFlattener(tree, cs) ==
    IF ~rootExists THEN tree
    ELSE FlatChildrenResult(MkdirAll([tree EXCEPT !.root = TRUE], STYLE_DIRS), cs)

FullRun(tree) ==
    IF tool = "selector" THEN RunSelector(tree) ELSE RunFlattener(tree, assets)

Next ==
    \/ SelMain
    \/ SelStyle
    \/ SelCode
    \/ SelUnlink
    \/ SelCopy
    \/ FlatMain
    \/ FlatMkRoot
    \/ FlatMkStyle
    \/ FlatWalk
    \/ FlatStyle
    \/ FlatCopy
    \/ Interrupt
    \/ Rerun
    \/ ChangeExt

Init == InitSelector \/ InitFlattener

Spec == Init /\ [][Next]_vars

(***************************************************************************)
(* Properties                                                              *)
(***************************************************************************)
Done == pc = "done"

\* A complete first real run ends in the tree FullRun computes: the step-wise
\* actions and the functional description of a run agree.
RunMatchesFullRun ==
    (Done /\ scenario = "first" /\ ~dryRun) => dst = FullRun(dst0)

\* C2 (Selector idempotence): when the Selector has been run to completion
\* twice in a row with the same source tree, styles and codes, the destination
\* tree after the second run equals the tree after the first run: the same
\* directories, file names and contents, nothing added.
C2_SelectorIdempotent ==
    (tool = "selector" /\ scenario = "rerun" /\ Done) => dst = dstAfter1

\* C2 witness: a second run has ended on a destination that held stale files
\* for a requested code and in which the first run replaced them.
C2_Witness ==
    /\ tool = "selector" /\ scenario = "rerun" /\ Done
    /\ dst0 = StaleTree
    /\ chosen # {}
    /\ File("Color", N_26f8_png, Stale("Color", N_26f8_png)) \notin dst.files
    /\ N_26f8_svg \in Names(dst, "Color")

\* C10 (re-run repairs an interrupted run): when the first real run of either
\* tool is cut after any number of its filesystem steps and the tool is then
\* run to completion with the same inputs, the destination tree equals the one
\* an uninterrupted run from the original destination produces.
C10_RerunRepairs ==
    (scenario = "repair" /\ Done) => dst = FullRun(dst0)

\* C10 witness: a Selector run was cut after the old files of 26f8 were removed
\* and before the new one was copied; the repeated run has ended and the file
\* for 26f8 is there.
C10_Witness ==
    /\ tool = "selector" /\ scenario = "repair" /\ Done
    /\ interruptedAt = "copy"
    /\ dst0 = StaleTree
    /\ styles = <<"Color">>
    /\ codes = <<N_26f8>>
    /\ N_26f8_svg \in Names(dst, "Color")
    /\ N_26f8_png \notin Names(dst, "Color")

\* The least name of a non-empty set in sorted order.
FirstName(S) == CHOOSE x \in S : \A y \in S \ {x} : NameLess(x, y)

\* The pair (styles[i], codes[j]) has been through the head of the code loop
\* in the current Selector run.
Processed(i, j) ==
    /\ tool = "selector"
    /\ i \in DOMAIN styles /\ j \in DOMAIN codes
    /\ styles[i] \in src.dirs
    /\ \/ Done /\ exitStatus = 0
       \/ pc \in {"style", "code", "remove"} /\ i < si
       \/ pc \in {"code", "remove"} /\ i = si /\ j < ci
       \/ pc = "remove" /\ i = si /\ j = ci

ChoiceOf(style, c) == {r.file : r \in {q \in chosen : q.style = style /\ q.code = c}}

IsExact(name, c) == StartsWith(name, c \o <<".">>)
IsFe0f(name, c)  == StartsWith(name, c \o <<" ", "f", "e", "0", "f", ".">>)

\* name starts with the code and has a "." somewhere after it.
HasDotAfter(name, c) ==
    /\ StartsWith(name, c)
    /\ \E k \in (Len(c) + 1)..Len(name) : name[k] = "."

\* The file x is the one the preference order picks among the names of pool:
\* an exact <code>.<ext>, else a <code> fe0f.<ext>, else the first of pool.
PreferenceOrder(style, c, pool, x) ==
    LET all == Names(src, style)
    IN  /\ x \in pool
        /\ IF \E n \in all : IsExact(n, c) THEN IsExact(x, c)
           ELSE IF \E n \in all : IsFe0f(n, c) THEN IsFe0f(x, c)
           ELSE x = FirstName(pool)
        /\ (c = N_26f8 /\ {N_26f8_svg, N_26f8_fe0f_png} \subseteq all) => x = N_26f8_svg

\* C1 as stated (variant preference): for every requested (style, code) whose
\* source style directory holds a file whose name starts with the code, exactly
\* one source file is chosen: an exact <code>.<ext>, else a <code> fe0f.<ext>,
\* else the first prefix-matching file in sorted order.
C1_AsStated ==
    \A i \in DOMAIN styles, j \in DOMAIN codes :
        LET pool == {n \in Names(src, styles[i]) : StartsWith(n, codes[j])}
        IN  (Processed(i, j) /\ pool # {}) =>
               \E x \in pool : /\ ChoiceOf(styles[i], codes[j]) = {x}
                               /\ PreferenceOrder(styles[i], codes[j], pool, x)

\* C1 amended: the same for every requested (style, code) whose source style
\* directory holds a file whose name starts with the code and has a "." after
\* it (the glob <code>*.*); the fallback is the first such file in sorted order.
C1_VariantPreference ==
    \A i \in DOMAIN styles, j \in DOMAIN codes :
        LET pool == {n \in Names(src, styles[i]) : HasDotAfter(n, codes[j])}
        IN  (Processed(i, j) /\ pool # {}) =>
               \E x \in pool : /\ ChoiceOf(styles[i], codes[j]) = {x}
                               /\ PreferenceOrder(styles[i], codes[j], pool, x)

\* C1 witness: with 26f8.svg and 26f8 fe0f.png in Color, the code 26f8 has been
\* processed and 26f8.svg was chosen.
C1_Witness ==
    /\ tool = "selector" /\ Done /\ exitStatus = 0
    /\ {N_26f8_svg, N_26f8_fe0f_png} \subseteq Names(src, "Color")
    /\ ChoiceOf("Color", N_26f8) = {N_26f8_svg}

\* C3 (extension change): when the asset matched for code C in style S changed
\* its extension from ext1 to ext2 between two complete real Selector runs,
\* then after the second run <S>/<C><ext2> exists and <S>/<C><ext1> does not,
\* for every requested code C whatever the other requested codes.
C3_ExtensionChange ==
    (tool = "selector" /\ scenario = "changed" /\ Done) =>
        /\ change.code \o change.ext2 \in Names(dst, change.style)
        /\ change.code \o change.ext1 \notin Names(dst, change.style)

\* C4 (dry-run frame): in a dry run of either tool the destination tree is, at
\* every step and at the end, the tree it was before the run.
C4_DryRunFrame == dryRun => dst = dst0

\* C4 witness: a Selector dry run has ended after reporting a copy for 26f8
\* into a destination directory that does not exist.
C4_Witness ==
    /\ tool = "selector" /\ dryRun /\ Done
    /\ dst0 = EmptyTree
    /\ chosen # {}

\* The child of the run that a copied file came from.
ChildNamed(name) == CHOOSE c \in Range(assets) : c.name = name

FromFlattener(f) == f.content.variant \notin {"stale", "unicode"}

\* C5 (skin-tone invariant): every destination file the Flattener wrote for an
\* emoji directory that has a Default folder is a file of Default/<style>; no
\* file under another variant folder is ever the content of a destination file.
C5_SkinTone ==
    tool = "flattener" =>
        \A f \in dst.files :
            FromFlattener(f) =>
                /\ f.content.variant \in {"Default", "root"}
                /\ ChildNamed(f.content.dir).hasDefault => f.content.variant = "Default"

\* C5 witness: Skier has Default/Color and Dark/Color, and its Default file is
\* in the destination.
C5_Witness ==
    /\ tool = "flattener" /\ Done
    /\ \E f \in dst.files :
          /\ f.content.dir = Skier.name
          /\ f.content.variant = "Default"
          /\ f.style = "Color"

\* The children process_emoji_dir is called on that get a code, by index.
WithCode == {i \in DOMAIN assets : (singleEmoji \/ assets[i].isDir) /\ HasCode(assets[i])}

\* The non-hidden regular files of the (skin-tone-resolved) style directory.
SourceFiles(child, style) ==
    {y \in child.entries :
        /\ y.variant = (IF child.hasDefault THEN "Default" ELSE "root")
        /\ y.style = style
        /\ y.isFile
        /\ Head(y.name) # "."}

\* The destination holds for code c in style exactly one file per extension
\* of the child's source files, each with the content of the last source file
\* of that extension in sorted name order.
OneFilePerExtension(child, c, style) ==
    LET F == SourceFiles(child, style)
    IN  F # {} =>
          /\ {n \in Names(dst, style) : n = c \o Suffix(n)}
                = {c \o Suffix(y.name) : y \in F}
          /\ \A y \in F :
                LET same == {z \in F : Suffix(z.name) = Suffix(y.name)}
                    last == CHOOSE z \in same : \A w \in same \ {z} : NameLess(w.name, z.name)
                IN  ContentOf(dst, style, c \o Suffix(y.name))
                      = Origin(child.name, last.variant, style, last.name)

FlatRunComplete ==
    /\ tool = "flattener" /\ scenario = "first" /\ Done
    /\ ~dryRun /\ rootExists /\ dst0 = EmptyTree

Fatal ==
    \/ ~rootExists
    \/ tool = "selector" /\ ~unicodeExists

\* C7 (fatal-error exit status): for both tools a run whose required source
\* root is missing ends with a non-zero exit status and an unchanged
\* destination; a run without that ends with status 0, warnings or not.
C7_FatalExit ==
    Done => /\ Fatal => (exitStatus # 0 /\ dst = dst0)
            /\ ~Fatal => exitStatus = 0

\* C8 (missing assets are non-fatal): a complete real Selector run ends with
\* status 0, and for every requested style whose source directory exists and
\* every requested code with a matching source file the destination style
\* directory holds <code><ext> with the content of the chosen file.
C8_MissingNonFatal ==
    (tool = "selector" /\ scenario = "first" /\ Done /\ ~dryRun /\ ~Fatal) =>
        /\ exitStatus = 0
        /\ \A s \in Range(styles) \cap src.dirs, c \in Range(codes) :
              Candidates(src, s, c) # <<>> =>
                 \E x \in ChoiceOf(s, c) :
                    /\ CopyTarget(c, x) \in Names(dst, s)
                    /\ ContentOf(dst, s, CopyTarget(c, x)) = ContentOf(src, s, x)

\* An emoji directory without a usable code: no metadata record, an unreadable
\* one, no "unicode" field, one that is not a string, or an empty or blank one.
Unusable(child) ==
    \/ child.meta.kind \in {"absent", "invalid", "nokey", "null"}
    \/ child.meta.kind = "string" /\ \A k \in DOMAIN child.meta.val : child.meta.val[k] = " "

\* The children that have a usable code, in order.
RECURSIVE Usable(_)
Usable(cs) ==
    IF cs = <<>> THEN <<>>
    ELSE IF Unusable(Head(cs)) THEN Usable(Tail(cs))
    ELSE <<Head(cs)>> \o Usable(Tail(cs))

\* C9 (per-emoji failure isolation): after a real Flattener run over an assets
\* root, an emoji directory without a usable code has contributed no file, and
\* the destination is the one the run produces without those directories.
C9_FailureIsolation ==
    (tool = "flattener" /\ scenario = "first" /\ Done /\ ~dryRun /\ rootExists
       /\ ~singleEmoji) =>
        /\ \A i \in DOMAIN assets :
              Unusable(assets[i]) =>
                 \A f \in dst.files : f.content.dir # assets[i].name
        /\ dst = RunFlattener(dst0, Usable(assets))

==========================================================================
